---- MODULE Spec2Model ----
(***************************************************************************)
(* Model of weewxstats2social (src/main.go): one posting cycle of          *)
(* runWeatherPosting -- getStats for yesterday and the day before, the     *)
(* NaN guard, the two backward streak scans over archive_day_rain, the     *)
(* composition of body and title, and the publishing to Lemmy (with        *)
(* lemmyPostWithRetry) and Mastodon -- and the loop of main that runs a    *)
(* cycle, computes the next run and sleeps until then.                     *)
(*                                                                         *)
(* Representation.                                                         *)
(*  - Time is counted in ticks relative to today's local midnight (0);     *)
(*    TicksPerHour ticks make an hour.  Day i (i >= 1) is the local        *)
(*    calendar day i days before today; it has 23, 24 or 25 hours          *)
(*    depending on the zone's DST change (variable zone).                  *)
(*  - sql.NullFloat64 is the record [valid, v].                            *)
(*  - float64 is the record [nan, v]; temperatures are held in tenths of   *)
(*    a degree, rain amounts in the unit of the rollup table.  Comparisons *)
(*    with NaN are false, as in Go.                                        *)
(*  - The wall clock counts minutes from the local midnight of the day the *)
(*    process started.  The tables are given relative to the day of the    *)
(*    running cycle; the cycles of one run see the same relative content.  *)
(***************************************************************************)
EXTENDS Integers, Sequences, FiniteSets, TLC

VARIABLES
    archive,              \* table archive: sequence of rows [dateTime, outTemp, maxSolarRad]
    rollup,               \* table archive_day_rain: function dateTime -> sum (NullFloat64)
    zone,                 \* the DST change of Europe/Berlin in the modelled range: [day, shift]
    config,               \* [lemmy: password # "CHANGEME", mastodon: server # "" /\ token # ""]
    testMode,             \* flag -test
    loopMode,             \* flag -loop
    pc,                   \* position in runWeatherPosting
    statsY,               \* result of getStats for yesterday: [err, s]
    statsV,               \* result of getStats for the day before
    faultsY,              \* the query failures that hit the call for yesterday
    faultsV,              \* the query failures that hit the call for the day before
    i,                    \* loop variable of the running scan
    daysSinceRain,
    consecutiveRainDays,
    dryIters,             \* loop bodies executed by the first scan
    rainIters,            \* loop bodies executed by the second scan
    dryStop,              \* why the first scan ended
    rainStop,             \* why the second scan ended
    weatherText,          \* body: sequence of sentences
    title,                \* [text, tMaxY, tMinY, tMaxV, tMinV] or NoTitle
    retryCount,           \* lemmyPostWithRetry's retryCount
    attempts,             \* iterations of lemmyPostWithRetry's for loop
    sleeps,               \* time.Sleep(retryInterval) calls
    lemmyPosts,           \* the [title, body] handed to lemmyCreatePost so far
    lemmyDone,            \* lemmyCreatePost calls that succeeded
    mastodonPosts,        \* mastodonCreatePost calls: sequence of [text]
    printed,              \* test mode printed the would-be post
    clock,                \* the wall clock that time.Now() reads
    now,                  \* runWeatherPosting's now := time.Now().In(loc)
    targets               \* the yesterday of every cycle started so far, as a day number

vars == <<archive, rollup, zone, config, testMode, loopMode, pc, statsY, statsV,
          faultsY, faultsV, i, daysSinceRain, consecutiveRainDays, dryIters,
          rainIters, dryStop, rainStop, weatherText, title, retryCount, attempts,
          sleeps, lemmyPosts, lemmyDone, mastodonPosts, printed, clock, now, targets>>

---------------------------------------------------------------------------
(* Program constants *)

sunThreshold == 120

drySpellThreshold == 3

\* const retryInterval = 30 * time.Minute
retryInterval == 30

\* the hour of time.Date(now.Year(), now.Month(), now.Day(), 4, 0, 0, 0, ...)
runHour == 4

maxRetries == 48

\* for i := 1; i < 30; i++
scanLimit == 30

\* rainSum.Float64 * 10.0
rainFactor == 10

heatwaveMin == 350

hotMin == 300

sunnyMin == 250

warmNightMin == 200

(* Bounds of the model *)

\* ticks per hour: the resolution of dateTime
TicksPerHour == 2

\* rows of table archive
MaxRows == 3

\* days of rollup history before today
HistLen == 31

\* length of the middle segment of a rollup history
MidLen == 2

\* the number up to which attempts and sleeps of a retry loop are counted
AttemptCap == 50

\* minutes a cycle takes at most, its retry sleeps aside
MaxWork == 2

\* cycles of main's loop that are followed
MaxCycles == 3

---------------------------------------------------------------------------
(* Values *)

Null == [valid |-> FALSE, v |-> 0]

Valid(x) == [valid |-> TRUE, v |-> x]

NaN == [nan |-> TRUE, v |-> 0]

Num(x) == [nan |-> FALSE, v |-> x]

IsNaN(f) == f.nan

\* f >= c and f < c on float64: false when f is NaN
GE(f, c) == ~f.nan /\ f.v >= c

LT(f, c) == ~f.nan /\ f.v < c

GT(f, c) == ~f.nan /\ f.v > c

SetMax(S) == CHOOSE x \in S : \A y \in S : y <= x

SetMin(S) == CHOOSE x \in S : \A y \in S : x <= y

---------------------------------------------------------------------------
(* Local time: time.Date, AddDate, Unix, In(loc).Hour() *)

\* hours of local day d: 24, or 23/25 on the day of the DST change
DayHours(d) == 24 + (IF d = zone.day THEN zone.shift ELSE 0)

\* Unix time of local midnight of day d:
\* time.Date(now.Year(), now.Month(), now.Day(), 0, 0, 0, 0, loc).AddDate(0, 0, -d).Unix()
RECURSIVE DayStart(_)
DayStart(d) == IF d <= 0 THEN 0 ELSE DayStart(d - 1) - DayHours(d) * TicksPerHour

\* the local day a timestamp lies in
LocalDay(ts) == CHOOSE d \in 1..(HistLen + 1) : DayStart(d) <= ts /\ ts < DayStart(d - 1)

\* time.Unix(ts, 0).In(loc).Hour(): the wall-clock hour; on the 23-hour day
\* hour 2 is skipped, on the 25-hour day hour 2 is repeated
Hour(ts) ==
    LET d == LocalDay(ts)
        k == (ts - DayStart(d)) \div TicksPerHour
    IN  IF d = zone.day /\ zone.shift = -1 /\ k >= 2 THEN k + 1
        ELSE IF d = zone.day /\ zone.shift = 1 /\ k >= 3 THEN k - 1
        ELSE k

\* dayStart in getStats: local midnight of the day of start
DayStartOf(start) == DayStart(LocalDay(start))

\* the wall clock: minutes of a day, and the calendar day and the minute of
\* the day of a clock value
MinutesPerDay == 24 * 60

DayOf(t) == t \div MinutesPerDay

MinuteOfDay(t) == t % MinutesPerDay

\* time.Date(t.Year(), t.Month(), t.Day(), runHour, 0, 0, 0, t.Location())
RunTimeOn(t) == DayOf(t) * MinutesPerDay + runHour * 60

---------------------------------------------------------------------------
(* The queries of getStats and of the scans *)

\* rows of archive with dateTime >= start AND dateTime < end, in table order
Window(start, end) ==
    SelectSeq(archive, LAMBDA r : start <= r.dateTime /\ r.dateTime < end)

\* the non-null outTemp values of a row sequence
Temps(rows) == {rows[k].outTemp.v : k \in {j \in DOMAIN rows : rows[j].outTemp.valid}}

\* SELECT MAX(outTemp), MIN(outTemp): NULL over no non-null value
QuerySummary(start, end) ==
    LET T == Temps(Window(start, end))
    IN  [tMax |-> IF T = {} THEN Null ELSE Valid(SetMax(T)),
         tMin |-> IF T = {} THEN Null ELSE Valid(SetMin(T))]

\* the lookup that reads a missing row as a null sum instead of sql.ErrNoRows
QueryRainExactNoRowAsNull(key, fail) ==
    IF fail
    THEN [err |-> TRUE, val |-> Null]
    ELSE [err |-> FALSE, val |-> IF key \in DOMAIN rollup THEN rollup[key] ELSE Null]

\* db.QueryRow("SELECT sum FROM archive_day_rain WHERE dateTime = ?", key).Scan(&rainSum):
\* err is a failed query or sql.ErrNoRows
QueryRainExact(key, fail) ==
    IF fail \/ key \notin DOMAIN rollup
    THEN [err |-> TRUE, val |-> Null]
    ELSE [err |-> FALSE, val |-> rollup[key]]

\* the rollup rows with dateTime >= start AND dateTime < end
RainCandidates(start, end) == {t \in DOMAIN rollup : start <= t /\ t < end}

\* db.QueryRow(qRainFallback, start, end).Scan(&rainSum): the first row the
\* query yields is row pick (the statement has no ORDER BY)
QueryRainRange(start, end, fail, pick) ==
    IF fail \/ pick \notin RainCandidates(start, end)
    THEN [err |-> TRUE, val |-> Null]
    ELSE [err |-> FALSE, val |-> rollup[pick]]

\* the stored sum taken over without the factor
RainSumUnscaled(val) == Num(val.v)

\* part 2 of getStats: s.rainSum
RainSumScaled(val) == Num(val.v * rainFactor)

RainSumOf(start, end, f, pick) ==
    LET dayStartUnix == DayStartOf(start)
        q == QueryRainExact(dayStartUnix, f.rain)
        fb == QueryRainRange(start, end, f.fallback, pick)
    IN  IF q.err
        THEN IF fb.err THEN Num(0)
             ELSE IF fb.val.valid THEN RainSumScaled(fb.val)
             ELSE Num(0)
        ELSE IF q.val.valid THEN RainSumScaled(q.val)
        ELSE Num(0)

\* the loop body counting readings instead of hours
SunRowPerReading(seenSun, r) ==
    IF r.maxSolarRad.valid /\ r.maxSolarRad.v >= sunThreshold
    THEN seenSun \cup {r.dateTime}
    ELSE seenSun

\* the body of the rows.Next() loop: h joins seenSun when the row qualifies
SunRow(seenSun, r) ==
    IF r.maxSolarRad.valid /\ r.maxSolarRad.v >= sunThreshold
    THEN seenSun \cup {Hour(r.dateTime)}
    ELSE seenSun

\* part 3 of getStats: the loop over the rows, from row k on
RECURSIVE SeenSun(_, _, _)
SeenSun(rows, k, seenSun) ==
    IF k > Len(rows) THEN seenSun
    ELSE SeenSun(rows, k + 1, SunRow(seenSun, rows[k]))

SunHoursOf(rows) == Cardinality(SeenSun(rows, 1, {}))

\* var s dayStats
ZeroStats == [tMax |-> Num(0), tMin |-> Num(0), rainSum |-> Num(0), sunHours |-> 0]

NoFaults == [summary |-> FALSE, rain |-> FALSE, fallback |-> FALSE, hourly |-> FALSE]

AllFaults == [summary : BOOLEAN, rain : BOOLEAN, fallback : BOOLEAN, hourly : BOOLEAN]

\* getStats(db, loc, start, end): f names the queries that fail to execute
getStats(start, end, f, pick) ==
    LET q1 == QuerySummary(start, end)
        s1 == [ZeroStats EXCEPT
                 !.tMax = IF q1.tMax.valid THEN Num(q1.tMax.v) ELSE NaN,
                 !.tMin = IF q1.tMin.valid THEN Num(q1.tMin.v) ELSE NaN]
        s2 == [s1 EXCEPT !.rainSum = RainSumOf(start, end, f, pick)]
        s3 == [s2 EXCEPT !.sunHours = SunHoursOf(Window(start, end))]
    IN  IF f.summary THEN [err |-> TRUE, s |-> ZeroStats]
        ELSE IF f.hourly THEN [err |-> TRUE, s |-> s2]
        ELSE [err |-> FALSE, s |-> s3]

\* the rows the fallback query may yield first (0 when it yields none)
Picks(start, end) ==
    IF RainCandidates(start, end) = {} THEN {0} ELSE RainCandidates(start, end)

---------------------------------------------------------------------------
(* Strings: a string is a sequence of characters; an emoji is one character *)

\* the literals appended to emojis: the emoji followed by a space
EmojiRain == <<"rain", " ">>

EmojiHeatwave == <<"heatwave", " ">>

EmojiHot == <<"hot", " ">>

EmojiSunny == <<"sunny", " ">>

EmojiFrost == <<"frost", " ">>

EmojiFreeze == <<"freeze", " ">>

EmojiWarmNight == <<"warmnight", " ">>

TitleText == <<"Wetterstatistik">>

\* strings.Join(elems, sep)
RECURSIVE Join(_, _)
Join(elems, sep) ==
    IF Len(elems) = 0 THEN <<>>
    ELSE IF Len(elems) = 1 THEN elems[1]
    ELSE elems[1] \o sep \o Join(Tail(elems), sep)

\* the emoji rules of runWeatherPosting, in the order of the code
RainEmojis(s) == IF GT(s.rainSum, 0) THEN <<EmojiRain>> ELSE <<>>

HeatEmojis(s) ==
    IF GE(s.tMax, heatwaveMin) THEN <<EmojiHeatwave>>
    ELSE IF GE(s.tMax, hotMin) THEN <<EmojiHot>>
    ELSE IF GE(s.tMax, sunnyMin) THEN <<EmojiSunny>>
    ELSE <<>>

FrostEmojis(s) == IF LT(s.tMin, 0) THEN <<EmojiFrost>> ELSE <<>>

FreezeEmojis(s) == IF LT(s.tMax, 0) THEN <<EmojiFreeze>> ELSE <<>>

WarmNightEmojis(s) == IF GE(s.tMin, warmNightMin) THEN <<EmojiWarmNight>> ELSE <<>>

\* the rules with frost tested before the heat tier
EmojisFrostFirst(s) ==
    RainEmojis(s) \o FrostEmojis(s) \o HeatEmojis(s) \o FreezeEmojis(s) \o WarmNightEmojis(s)

Emojis(s) ==
    RainEmojis(s) \o HeatEmojis(s) \o FrostEmojis(s) \o FreezeEmojis(s) \o WarmNightEmojis(s)

\* emojiString
EmojiString(emojis) ==
    IF Len(emojis) > 0 THEN Join(emojis, <<" ">>) \o <<" ">> ELSE <<>>

\* title := fmt.Sprintf(`%sWetterstatistik für Overath %s: ...`, emojiString, ...)
TitleOf(sY, sV) ==
    [text |-> EmojiString(Emojis(sY)) \o TitleText,
     day  |-> 1,
     args |-> <<sY.tMax, sY.tMin, sV.tMax, sV.tMin>>]

NoTitle == [text |-> <<>>, day |-> 0, args |-> <<>>]

\* weatherText = fmt.Sprintf(`Niederschlag: %.1f mm (Vortag: %.1f mm), Sonnenstunden: ...`)
BodyOf(sY, sV) ==
    <<[kind |-> "Niederschlag",
       args |-> <<sY.rainSum, sV.rainSum, Num(sY.sunHours), Num(sV.sunHours)>>]>>

\* the dry-spell sentence with the threshold compared by > instead of >=
DrySentenceAbove(sY, dsr) ==
    IF dsr > drySpellThreshold
    THEN IF GT(sY.rainSum, 0)
         THEN <<[kind |-> "wiederGeregnet", args |-> <<Num(dsr)>>]>>
         ELSE <<[kind |-> "nichtGeregnet", args |-> <<Num(dsr)>>]>>
    ELSE <<>>

\* the sentences appended after both scans
DrySentence(sY, dsr) ==
    IF dsr >= drySpellThreshold
    THEN IF GT(sY.rainSum, 0)
         THEN <<[kind |-> "wiederGeregnet", args |-> <<Num(dsr)>>]>>
         ELSE <<[kind |-> "nichtGeregnet", args |-> <<Num(dsr)>>]>>
    ELSE <<>>

RainSentence(crd) ==
    IF crd >= drySpellThreshold
    THEN <<[kind |-> "regnetSeit", args |-> <<Num(crd)>>]>>
    ELSE <<>>

---------------------------------------------------------------------------
(* The inputs: zone, tables, flags *)

NoZone == [day |-> 0, shift |-> 0]

\* no DST change, or yesterday was the 23-hour or the 25-hour day
Zones == {NoZone, [day |-> 1, shift |-> -1], [day |-> 1, shift |-> 1]}

\* a row of archive, placed off ticks after the midnight of day
MkRow(r) == [dateTime    |-> DayStart(r.day) + r.off,
             outTemp     |-> r.outTemp,
             maxSolarRad |-> r.maxSolarRad]

MkArchive(rs) == [k \in DOMAIN rs |-> MkRow(rs[k])]

SeqsUpTo(S, n) == UNION {[1..m -> S] : m \in 0..n}

\* a day of the rollup history: no row, or a row with its sum
NoRow == [row |-> FALSE, sum |-> Null]

Row(sum) == [row |-> TRUE, sum |-> sum]

\* a history of n1 days of k1, then n2 days of k2, then days of k3
Segments(k1, n1, k2, n2, k3) ==
    [d \in 1..HistLen |-> IF d <= n1 THEN k1 ELSE IF d <= n1 + n2 THEN k2 ELSE k3]

\* archive_day_rain: the row of day d at its local midnight when h[d] has one,
\* and for the days of o a row one hour after midnight
MkRollup(h, o) ==
    LET mids == {d \in DOMAIN h : h[d].row}
        offs == {d \in DOMAIN o : o[d].row}
        D    == {DayStart(d) : d \in mids} \cup {DayStart(d) + TicksPerHour : d \in offs}
    IN  [t \in D |-> IF \E d \in mids : t = DayStart(d)
                     THEN h[CHOOSE d \in mids : t = DayStart(d)].sum
                     ELSE o[CHOOSE d \in offs : t = DayStart(d) + TicksPerHour].sum]

NoOffs == [d \in 1..2 |-> NoRow]

Modes == [test : BOOLEAN, loop : BOOLEAN, lemmy : BOOLEAN, mastodon : BOOLEAN]

NoStats == [err |-> FALSE, s |-> ZeroStats]

\* the start of the process at a minute of Starts, up to the first line of
\* the first cycle
InitFrom(Zs, RowSeqs, Hists, Offs, Ms, Starts) ==
    /\ zone \in Zs
    /\ \E rs \in RowSeqs : archive = MkArchive(rs)
    /\ \E h \in Hists, o \in Offs : rollup = MkRollup(h, o)
    /\ \E m \in Ms :
         /\ testMode = m.test
         /\ loopMode = m.loop
         /\ config = [lemmy |-> m.lemmy, mastodon |-> m.mastodon]
    /\ pc = "statsY"
    /\ statsY = NoStats
    /\ statsV = NoStats
    /\ faultsY = NoFaults
    /\ faultsV = NoFaults
    /\ i = 0
    /\ daysSinceRain = 0
    /\ consecutiveRainDays = 0
    /\ dryIters = 0
    /\ rainIters = 0
    /\ dryStop = "none"
    /\ rainStop = "none"
    /\ weatherText = <<>>
    /\ title = NoTitle
    /\ retryCount = 0
    /\ attempts = 0
    /\ sleeps = 0
    /\ lemmyPosts = {}
    /\ lemmyDone = 0
    /\ mastodonPosts = <<>>
    /\ printed = FALSE
    /\ clock \in Starts
    /\ now = clock
    /\ targets = <<DayOf(now) - 1>>

\* the start of the process at 04:00
InitWith(Zs, RowSeqs, Hists, Offs, Ms) ==
    InitFrom(Zs, RowSeqs, Hists, Offs, Ms, {runHour * 60})

---------------------------------------------------------------------------
(* runWeatherPosting *)

dbVars == <<archive, rollup, zone, config, testMode, loopMode>>

cycleVars == <<now, targets>>

mainVars == <<clock, now, targets>>

scanVars == <<i, daysSinceRain, consecutiveRainDays, dryIters, rainIters, dryStop, rainStop>>

textVars == <<weatherText, title>>

pubVars == <<retryCount, attempts, sleeps, lemmyPosts, lemmyDone, mastodonPosts, printed>>

\* startYesterday.UTC().Unix(), endYesterday.UTC().Unix()
startYesterday == DayStart(1)

endYesterday == DayStart(0)

startDayBefore == DayStart(2)

endDayBefore == DayStart(1)

\* statsY, err := getStats(...); if err != nil { log.Fatalf(...) }
StatsYesterday(Faults) ==
    /\ pc = "statsY"
    /\ \E f \in Faults, pick \in Picks(startYesterday, endYesterday) :
         /\ statsY' = getStats(startYesterday, endYesterday, f, pick)
         /\ faultsY' = f
    /\ pc' = IF statsY'.err THEN "fatal" ELSE "statsV"
    /\ UNCHANGED <<dbVars, mainVars, statsV, faultsV, scanVars, textVars, pubVars>>

\* statsV, err := getStats(...); if err != nil { log.Fatalf(...) }
StatsDayBefore(Faults) ==
    /\ pc = "statsV"
    /\ \E f \in Faults, pick \in Picks(startDayBefore, endDayBefore) :
         /\ statsV' = getStats(startDayBefore, endDayBefore, f, pick)
         /\ faultsV' = f
    /\ pc' = IF statsV'.err THEN "fatal" ELSE "guard"
    /\ UNCHANGED <<dbVars, mainVars, statsY, faultsY, scanVars, textVars, pubVars>>

\* the check without the day before
AnyNaNYesterdayOnly(sY, sV) == IsNaN(sY.tMax) \/ IsNaN(sY.tMin)

\* math.IsNaN(statsY.tMax) || math.IsNaN(statsY.tMin) || ...
AnyNaN(sY, sV) == IsNaN(sY.tMax) \/ IsNaN(sY.tMin) \/ IsNaN(sV.tMax) \/ IsNaN(sV.tMin)

\* the NaN check: return, or go on to the first scan (daysSinceRain := 0; i := 1)
NaNGuard ==
    /\ pc = "guard"
    /\ IF AnyNaN(statsY.s, statsV.s)
       THEN pc' = "done" /\ UNCHANGED scanVars
       ELSE /\ pc' = "dryScan"
            /\ i' = 1
            /\ daysSinceRain' = 0
            /\ UNCHANGED <<consecutiveRainDays, dryIters, rainIters, dryStop, rainStop>>
    /\ UNCHANGED <<dbVars, mainVars, statsY, statsV, faultsY, faultsV, textVars, pubVars>>

\* the test without the comparison: every non-null sum counts as rain
RainedAnyValue(val) == val.valid

\* rainSum.Valid && rainSum.Float64 * 10.0 > 0
Rained(val) == val.valid /\ val.v * rainFactor > 0

\* the loop test of both scans: i < 30
ScanGoesOn(k) == k < scanLimit

\* one round of the first scan: the loop test and, when it holds, the body
DryScanStep ==
    /\ pc = "dryScan"
    /\ IF ScanGoesOn(i)
       THEN \E fail \in BOOLEAN :
              LET q == QueryRainExact(DayStart(i), fail)
              IN  /\ dryIters' = dryIters + 1
                  /\ IF q.err
                     THEN /\ dryStop' = IF fail THEN "error" ELSE "norow"
                          /\ pc' = "body"
                          /\ UNCHANGED <<i, daysSinceRain>>
                     ELSE IF Rained(q.val)
                     THEN /\ dryStop' = "rain"
                          /\ pc' = "body"
                          /\ UNCHANGED <<i, daysSinceRain>>
                     ELSE /\ daysSinceRain' = daysSinceRain + 1
                          /\ i' = i + 1
                          /\ UNCHANGED <<pc, dryStop>>
       ELSE /\ dryStop' = "limit"
            /\ pc' = "body"
            /\ UNCHANGED <<i, daysSinceRain, dryIters>>
    /\ UNCHANGED <<dbVars, mainVars, statsY, statsV, faultsY, faultsV, consecutiveRainDays,
                   rainIters, rainStop, textVars, pubVars>>

\* weatherText = fmt.Sprintf(...); consecutiveRainDays := 0; i := 1
ComposeBody ==
    /\ pc = "body"
    /\ weatherText' = BodyOf(statsY.s, statsV.s)
    /\ consecutiveRainDays' = 0
    /\ i' = 1
    /\ pc' = "rainScan"
    /\ UNCHANGED <<dbVars, mainVars, statsY, statsV, faultsY, faultsV, daysSinceRain, dryIters,
                   rainIters, dryStop, rainStop, title, pubVars>>

\* one round of the second scan
RainScanStep ==
    /\ pc = "rainScan"
    /\ IF ScanGoesOn(i)
       THEN \E fail \in BOOLEAN :
              LET q == QueryRainExact(DayStart(i), fail)
              IN  /\ rainIters' = rainIters + 1
                  /\ IF q.err
                     THEN /\ rainStop' = IF fail THEN "error" ELSE "norow"
                          /\ pc' = "appendix"
                          /\ UNCHANGED <<i, consecutiveRainDays>>
                     ELSE IF Rained(q.val)
                     THEN /\ consecutiveRainDays' = consecutiveRainDays + 1
                          /\ i' = i + 1
                          /\ UNCHANGED <<pc, rainStop>>
                     ELSE /\ rainStop' = "dry"
                          /\ pc' = "appendix"
                          /\ UNCHANGED <<i, consecutiveRainDays>>
       ELSE /\ rainStop' = "limit"
            /\ pc' = "appendix"
            /\ UNCHANGED <<i, consecutiveRainDays, rainIters>>
    /\ UNCHANGED <<dbVars, mainVars, statsY, statsV, faultsY, faultsV, daysSinceRain,
                   dryIters, dryStop, textVars, pubVars>>

\* the two appendix sentences
Appendix ==
    /\ pc = "appendix"
    /\ weatherText' = weatherText \o DrySentence(statsY.s, daysSinceRain)
                                  \o RainSentence(consecutiveRainDays)
    /\ pc' = "title"
    /\ UNCHANGED <<dbVars, mainVars, statsY, statsV, faultsY, faultsV, scanVars, title, pubVars>>

\* the emojis, emojiString and title
ComposeTitle ==
    /\ pc = "title"
    /\ title' = TitleOf(statsY.s, statsV.s)
    /\ pc' = "publish"
    /\ UNCHANGED <<dbVars, mainVars, statsY, statsV, faultsY, faultsV, scanVars, weatherText, pubVars>>

\* mastodonCreatePost(server, token, title+"\n"+weatherText, visibility)
MastodonText == [title |-> title, body |-> weatherText]

\* if !testMode && config.LemmyPassword != "CHANGEME" {...} else if testMode {...} else {...}
Publish ==
    /\ pc = "publish"
    /\ IF ~testMode /\ config.lemmy
       THEN /\ pc' = "lemmy"
            /\ retryCount' = 0
            /\ UNCHANGED <<attempts, sleeps, lemmyPosts, lemmyDone, mastodonPosts, printed>>
       ELSE IF testMode
       THEN /\ printed' = TRUE
            /\ IF config.mastodon
               THEN \E ok \in BOOLEAN :
                      mastodonPosts' = Append(mastodonPosts, [text |-> MastodonText, ok |-> ok])
               ELSE UNCHANGED mastodonPosts
            /\ pc' = "done"
            /\ UNCHANGED <<retryCount, attempts, sleeps, lemmyPosts, lemmyDone>>
       ELSE /\ pc' = "mastodon"
            /\ UNCHANGED pubVars
    /\ UNCHANGED <<dbVars, mainVars, statsY, statsV, faultsY, faultsV, scanVars, textVars>>

LemmyOutcomes == {"loginFail", "communityFail", "postFail", "ok"}

\* what a failed attempt does to retryCount, and whether the loop goes on
RetryCountAfter(rc) == IF loopMode THEN rc + 1 ELSE rc

\* the give-up test off by one: retryCount > maxRetries
GivesUpLate(rc) == loopMode /\ rc > maxRetries

GivesUp(rc) == loopMode /\ rc >= maxRetries

\* the post resubmitted with a note of the attempt it belongs to
SubmissionPerAttempt(n) ==
    [title |-> title,
     body |-> weatherText \o <<[kind |-> "Versuch", args |-> <<Num(n)>>]>>]

\* the arguments title, weatherText of lemmyCreatePost in the n-th round
Submission(n) == [title |-> title, body |-> weatherText]

\* the failure branch of login and of post creation only: the branch of
\* the community lookup keeps retryCount
FailureCountedExceptLookup(outcome, rc) ==
    IF outcome = "communityFail" THEN rc ELSE RetryCountAfter(rc)

\* the three failure branches, one per step, each with the same counting
FailureCounted(outcome, rc) ==
    CASE outcome = "loginFail" -> RetryCountAfter(rc)
      [] outcome = "communityFail" -> RetryCountAfter(rc)
      [] outcome = "postFail" -> RetryCountAfter(rc)

\* a count of the retry loop after one more round: exact below AttemptCap
Counted(n) == IF n < AttemptCap THEN n + 1 ELSE n

\* one round of lemmyPostWithRetry's loop up to its return, sleep or continue
LemmyAttempt ==
    /\ pc = "lemmy"
    /\ \E outcome \in LemmyOutcomes :
         /\ attempts' = Counted(attempts)
         /\ lemmyPosts' = IF outcome \in {"postFail", "ok"}
                          THEN lemmyPosts \cup {Submission(attempts')}
                          ELSE lemmyPosts
         /\ IF outcome = "ok"
            THEN /\ lemmyDone' = lemmyDone + 1
                 /\ pc' = "mastodon"
                 /\ UNCHANGED retryCount
            ELSE /\ retryCount' = FailureCounted(outcome, retryCount)
                 /\ pc' = IF GivesUp(retryCount') THEN "mastodon" ELSE "lemmySleep"
                 /\ UNCHANGED lemmyDone
    /\ UNCHANGED <<dbVars, mainVars, statsY, statsV, faultsY, faultsV, scanVars, textVars,
                   sleeps, mastodonPosts, printed>>

\* time.Sleep(retryInterval); continue.  The clock is followed as far as the
\* sleeps are counted.
LemmySleep ==
    /\ pc = "lemmySleep"
    /\ sleeps' = Counted(sleeps)
    /\ clock' = IF sleeps < AttemptCap THEN clock + retryInterval ELSE clock
    /\ pc' = "lemmy"
    /\ UNCHANGED <<dbVars, cycleVars, statsY, statsV, faultsY, faultsV, scanVars, textVars,
                   retryCount, attempts, lemmyPosts, lemmyDone, mastodonPosts, printed>>

\* the Mastodon posting after the Lemmy branch, then the return
MastodonPost ==
    /\ pc = "mastodon"
    /\ IF config.mastodon
       THEN \E ok \in BOOLEAN :
              mastodonPosts' = Append(mastodonPosts, [text |-> MastodonText, ok |-> ok])
       ELSE UNCHANGED mastodonPosts
    /\ pc' = "done"
    /\ UNCHANGED <<dbVars, mainVars, statsY, statsV, faultsY, faultsV, scanVars, textVars,
                   retryCount, attempts, sleeps, lemmyPosts, lemmyDone, printed>>

---------------------------------------------------------------------------
(* main: the loop of the loop mode *)

\* nextRun := time.Date(..., 4, 0, 0, 0, ...); if now.After(nextRun) { nextRun =
\* nextRun.AddDate(0, 0, 1) }, for main's now = t
NextRunAfter(t) ==
    IF t > RunTimeOn(t) THEN RunTimeOn(t) + MinutesPerDay ELSE RunTimeOn(t)

\* one round of main's for loop after runWeatherPosting has returned: the
\* cycle's work has taken d minutes, main computes nextRun and sleeps for
\* sleepDuration = nextRun.Sub(now), and the next call of runWeatherPosting
\* starts with fresh locals and reads the clock
MainLoop ==
    /\ pc = "done"
    /\ loopMode
    /\ Len(targets) < MaxCycles
    /\ \E d \in 1..MaxWork :
         LET mainNow == clock + d
             nextRun == NextRunAfter(mainNow)
             sleepDuration == nextRun - mainNow
         IN  /\ clock' = mainNow + sleepDuration
             /\ now' = nextRun
             /\ targets' = Append(targets, DayOf(nextRun) - 1)
    /\ pc' = "statsY"
    /\ statsY' = NoStats
    /\ statsV' = NoStats
    /\ faultsY' = NoFaults
    /\ faultsV' = NoFaults
    /\ i' = 0
    /\ daysSinceRain' = 0
    /\ consecutiveRainDays' = 0
    /\ dryIters' = 0
    /\ rainIters' = 0
    /\ dryStop' = "none"
    /\ rainStop' = "none"
    /\ weatherText' = <<>>
    /\ title' = NoTitle
    /\ retryCount' = 0
    /\ attempts' = 0
    /\ sleeps' = 0
    /\ lemmyPosts' = {}
    /\ lemmyDone' = 0
    /\ mastodonPosts' = <<>>
    /\ printed' = FALSE
    /\ UNCHANGED dbVars

---------------------------------------------------------------------------
(* Specifications *)

\* the query failures followed in a whole cycle
CycleFaults ==
    {NoFaults,
     [NoFaults EXCEPT !.summary = TRUE],
     [NoFaults EXCEPT !.rain = TRUE],
     [NoFaults EXCEPT !.rain = TRUE, !.fallback = TRUE],
     [NoFaults EXCEPT !.hourly = TRUE]}

\* rows of a day with no sample, with a sample without temperature, with two samples
DayEmpty(d) == <<>>

DayNoTemp(d) == <<[day |-> d, off |-> 0, outTemp |-> Null, maxSolarRad |-> Valid(sunThreshold)]>>

DayWarm(d) ==
    <<[day |-> d, off |-> 0, outTemp |-> Valid(sunnyMin - 100), maxSolarRad |-> Null],
      [day |-> d, off |-> TicksPerHour, outTemp |-> Valid(sunnyMin + 1), maxSolarRad |-> Valid(sunThreshold)]>>

CycleArchives ==
    {DayWarm(1) \o DayWarm(2), DayNoTemp(1) \o DayWarm(2),
     DayWarm(1) \o DayEmpty(2), DayEmpty(1) \o DayNoTemp(2)}

Dry == Row(Valid(0))

Wet == Row(Valid(5))

CycleHists ==
    {Segments(NoRow, 0, NoRow, 0, NoRow),
     Segments(Dry, 2, Wet, 1, NoRow),
     Segments(Wet, 3, Dry, 1, NoRow),
     Segments(Dry, 3, Row(Null), 1, Dry)}

Init == InitWith({NoZone}, CycleArchives, CycleHists, {NoOffs}, Modes)

Next ==
    \/ StatsYesterday(CycleFaults)
    \/ StatsDayBefore(CycleFaults)
    \/ NaNGuard
    \/ DryScanStep
    \/ ComposeBody
    \/ RainScanStep
    \/ Appendix
    \/ ComposeTitle
    \/ Publish
    \/ LemmyAttempt
    \/ LemmySleep
    \/ MastodonPost

Spec == Init /\ [][Next]_vars

\* The streak scans over every segment history, up to the composed title
StreakKinds == {NoRow, Row(Null), Dry, Wet}

StreakHists ==
    {Segments(k1, n1, k2, n2, k3) :
        k1 \in StreakKinds, n1 \in 0..HistLen, k2 \in StreakKinds, n2 \in 0..MidLen,
        k3 \in StreakKinds}

TestOnly == [test |-> TRUE, loop |-> FALSE, lemmy |-> FALSE, mastodon |-> FALSE]

InitStreak == InitWith({NoZone}, {DayWarm(1) \o DayWarm(2)}, StreakHists, {NoOffs}, {TestOnly})

NextStreak ==
    \/ StatsYesterday({NoFaults})
    \/ StatsDayBefore({NoFaults})
    \/ NaNGuard
    \/ DryScanStep
    \/ ComposeBody
    \/ RainScanStep
    \/ Appendix
    \/ ComposeTitle

SpecStreak == InitStreak /\ [][NextStreak]_vars

\* getStats over every small archive of sub-daily readings, in every zone
SunOffs == {0, 1, 2 * TicksPerHour, 3 * TicksPerHour}

SunRows ==
    [day : {1}, off : SunOffs, outTemp : {Null},
     maxSolarRad : {Null, Valid(sunThreshold - 1), Valid(sunThreshold)}]
    \cup {[day |-> 2, off |-> 0, outTemp |-> Null, maxSolarRad |-> Valid(sunThreshold + 1)]}

SunFaults == {NoFaults, [NoFaults EXCEPT !.hourly = TRUE]}

InitSun ==
    InitWith(Zones, SeqsUpTo(SunRows, MaxRows), {Segments(NoRow, 0, NoRow, 0, NoRow)},
             {NoOffs}, {TestOnly})

NextSun ==
    \/ StatsYesterday(SunFaults)
    \/ StatsDayBefore(SunFaults)

SpecSun == InitSun /\ [][NextSun]_vars

\* getStats over every rollup content of the two windows, with every query failure
RainKinds == {NoRow, Row(Null), Dry, Wet, Row(Valid(123)), Row(Valid(-1))}

RainHists == {Segments(k1, 1, k2, 1, NoRow) : k1 \in RainKinds, k2 \in RainKinds}

RainOffs == [1..2 -> {NoRow, Row(Null), Row(Valid(7))}]

InitRain ==
    InitWith(Zones, {DayWarm(1) \o DayWarm(2)}, RainHists, RainOffs, {TestOnly})

NextRain ==
    \/ StatsYesterday(AllFaults)
    \/ StatsDayBefore(AllFaults)

SpecRain == InitRain /\ [][NextRain]_vars

\* the composition over the temperatures around every emoji threshold
EdgeTemps ==
    {0 - 10, 0 - 1, 0, warmNightMin - 1, warmNightMin, sunnyMin - 1, sunnyMin,
     hotMin - 1, hotMin, heatwaveMin - 1, heatwaveMin, heatwaveMin + 10}

DayOfTemps(d, a, b) ==
    <<[day |-> d, off |-> 0, outTemp |-> Valid(a), maxSolarRad |-> Null],
      [day |-> d, off |-> TicksPerHour, outTemp |-> Valid(b), maxSolarRad |-> Null]>>

ComposeArchives == {DayOfTemps(1, a, b) \o DayWarm(2) : a \in EdgeTemps, b \in EdgeTemps}

ComposeHists == {Segments(k1, 1, NoRow, 0, NoRow) : k1 \in {NoRow, Dry, Wet}}

InitCompose == InitWith({NoZone}, ComposeArchives, ComposeHists, {NoOffs}, {TestOnly})

NextCompose ==
    \/ StatsYesterday({NoFaults})
    \/ StatsDayBefore({NoFaults})
    \/ NaNGuard
    \/ DryScanStep
    \/ ComposeBody
    \/ RainScanStep
    \/ Appendix
    \/ ComposeTitle

SpecCompose == InitCompose /\ [][NextCompose]_vars

\* the scans and the appendix over the streaks around drySpellThreshold, with a
\* wet row inside yesterday's window and with the rain queries of getStats failing
AppendixHists ==
    {Segments(k1, n1, k2, 1, NoRow) :
        k1 \in {Dry, Wet}, n1 \in 0..(drySpellThreshold + 1), k2 \in {Dry, Wet}}

WetOffYesterday == [d \in 1..2 |-> IF d = 1 THEN Wet ELSE NoRow]

AppendixFaults == {NoFaults, [NoFaults EXCEPT !.rain = TRUE]}

InitAppendix ==
    InitWith({NoZone}, {DayWarm(1) \o DayWarm(2)}, AppendixHists,
             {NoOffs, WetOffYesterday}, {TestOnly})

NextAppendix ==
    \/ StatsYesterday(AppendixFaults)
    \/ StatsDayBefore(AppendixFaults)
    \/ NaNGuard
    \/ DryScanStep
    \/ ComposeBody
    \/ RainScanStep
    \/ Appendix
    \/ ComposeTitle

SpecAppendix == InitAppendix /\ [][NextAppendix]_vars

\* main's loop over a few cycles, for a process started around 04:00
StartTimes ==
    {0, runHour * 60 - 60, runHour * 60 - 1, runHour * 60, runHour * 60 + 1, 12 * 60}

LoopModes == {m \in Modes : m.loop}

InitLoop ==
    InitFrom({NoZone}, {DayWarm(1) \o DayWarm(2), DayEmpty(1) \o DayNoTemp(2)},
             {Segments(Dry, 2, Wet, 1, NoRow)}, {NoOffs}, LoopModes, StartTimes)

NextLoop ==
    \/ StatsYesterday({NoFaults})
    \/ StatsDayBefore({NoFaults})
    \/ NaNGuard
    \/ DryScanStep
    \/ ComposeBody
    \/ RainScanStep
    \/ Appendix
    \/ ComposeTitle
    \/ Publish
    \/ LemmyAttempt
    \/ LemmySleep
    \/ MastodonPost
    \/ MainLoop

SpecLoop == InitLoop /\ [][NextLoop]_vars

\* one cycle of a program that keeps running: no step that can be taken is
\* put off forever
InitLive ==
    InitWith({NoZone}, {DayWarm(1) \o DayWarm(2)}, {Segments(Dry, 2, Wet, 1, NoRow)},
             {NoOffs}, Modes)

SpecLive == InitLive /\ [][Next]_vars /\ WF_vars(Next)

---------------------------------------------------------------------------
(* Claims *)

\* day d has a rollup row at its local midnight
HasRow(d) == DayStart(d) \in DOMAIN rollup

\* day d has a row with rain / a row without rain
WetDay(d) == HasRow(d) /\ rollup[DayStart(d)].valid /\ rollup[DayStart(d)].v > 0

DryDay(d) == HasRow(d) /\ ~WetDay(d)

DryScanDone == dryStop # "none"

BothScansDone == dryStop # "none" /\ rainStop # "none"

\* C1: when each of the 30 days before the reference day has a readable row
\* without rain, the first scan reports daysSinceRain = 30, and it never runs
\* more than 30 rounds.
C1_StreakCap ==
    /\ dryIters <= scanLimit
    /\ (DryScanDone /\ dryStop # "error" /\ \A d \in 1..scanLimit : DryDay(d))
          => daysSinceRain = scanLimit

\* C2 as stated: the retries are bounded the same way in both modes, so no
\* cycle makes more than maxRetries attempts.
C2_RetriesBoundedInBothModes == attempts <= maxRetries

LemmyReturned == attempts > 0 /\ pc \in {"mastodon", "done"}

\* C2 as amended: in loop mode lemmyPostWithRetry makes at most maxRetries
\* attempts and sleeps only while retryCount is below maxRetries; in
\* single-shot mode retryCount stays 0 and the function returns only after
\* a successful post.
C2_RetriesBoundedInLoopMode ==
    /\ loopMode => /\ attempts <= maxRetries
                   /\ retryCount <= maxRetries
                   /\ (pc = "lemmySleep" => retryCount < maxRetries)
                   /\ (LemmyReturned /\ lemmyDone = 0 => attempts = maxRetries)
    /\ ~loopMode => /\ retryCount = 0
                    /\ (LemmyReturned => lemmyDone = 1)

\* C2's case: the loop-mode retry loop gave up after maxRetries failed attempts
C2_Witness ==
    loopMode /\ LemmyReturned /\ lemmyDone = 0 /\ attempts = maxRetries

\* C3: in test mode no post request goes to any platform.
C3_TestModeSendsNothing ==
    testMode => attempts = 0 /\ lemmyPosts = {} /\ mastodonPosts = <<>>

NoTempsY == Temps(Window(startYesterday, endYesterday)) = {}

NoTempsV == Temps(Window(startDayBefore, endDayBefore)) = {}

ReturnedY == pc \notin {"statsY"} /\ ~statsY.err

ReturnedV == pc \notin {"statsY", "statsV"} /\ ~statsY.err /\ ~statsV.err

NothingComposed ==
    /\ dryIters = 0
    /\ rainIters = 0
    /\ weatherText = <<>>
    /\ title = NoTitle

NothingPublished ==
    /\ attempts = 0
    /\ lemmyPosts = {}
    /\ mastodonPosts = <<>>
    /\ ~printed

\* C4: a window without a non-null temperature sample gives tMax and tMin
\* NaN, and the cycle then returns at the guard: no scan, no body, no title,
\* no publish attempt.
C4_NaNGuard ==
    /\ (ReturnedY /\ NoTempsY) => IsNaN(statsY.s.tMax) /\ IsNaN(statsY.s.tMin)
    /\ (ReturnedV /\ NoTempsV) => IsNaN(statsV.s.tMax) /\ IsNaN(statsV.s.tMin)
    /\ (NoTempsY \/ NoTempsV) =>
          /\ pc \in {"statsY", "statsV", "guard", "done", "fatal"}
          /\ NothingComposed
          /\ NothingPublished

\* C4's case: the day before has no temperature, yesterday has, and the
\* cycle returned at the guard
C4_Witness ==
    /\ pc = "done"
    /\ NoTempsV
    /\ ~NoTempsY
    /\ IsNaN(statsV.s.tMax)
    /\ ~IsNaN(statsY.s.tMax)

Failed(f) == f.summary \/ f.rain \/ f.fallback \/ f.hourly

\* C5: a query that fails to execute in any of the three reads makes getStats
\* return an error and the invocation abort with nothing composed or
\* published.
C5_QueryFailuresFatal ==
    /\ (pc # "statsY" /\ Failed(faultsY)) =>
          statsY.err /\ pc = "fatal" /\ NothingComposed /\ NothingPublished
    /\ (pc \notin {"statsY", "statsV"} /\ Failed(faultsV)) =>
          statsV.err /\ pc = "fatal" /\ NothingComposed /\ NothingPublished

\* the first lookback day could not be read by one of the scans
FirstDayUnreadable ==
    \/ ~HasRow(1)
    \/ dryStop = "error" /\ dryIters = 1
    \/ rainStop = "error" /\ rainIters = 1

NoScanError == dryStop # "error" /\ rainStop # "error"

\* C6: after both scans at most one of daysSinceRain and consecutiveRainDays
\* is non-zero; both are zero only if the first lookback day is unreadable;
\* [dry, dry, wet, ...] gives 2 and 0, [wet, wet, dry, ...] gives 0 and 2.
C6_StreaksExclusive ==
    BothScansDone =>
        /\ daysSinceRain = 0 \/ consecutiveRainDays = 0
        /\ (daysSinceRain = 0 /\ consecutiveRainDays = 0) => FirstDayUnreadable
        /\ (NoScanError /\ DryDay(1) /\ DryDay(2) /\ WetDay(3))
              => daysSinceRain = 2 /\ consecutiveRainDays = 0
        /\ (NoScanError /\ WetDay(1) /\ WetDay(2) /\ DryDay(3))
              => daysSinceRain = 0 /\ consecutiveRainDays = 2

\* C6's case: both scans ran over a history [wet, wet, dry, ...]
C6_Witness ==
    /\ BothScansDone
    /\ NoScanError
    /\ WetDay(1) /\ WetDay(2) /\ DryDay(3)
    /\ consecutiveRainDays = 2

\* the local hours 0..23 with a reading of the window at or above the threshold
QualifyingHours(start, end) ==
    {h \in 0..23 :
        \E k \in DOMAIN archive :
           /\ start <= archive[k].dateTime /\ archive[k].dateTime < end
           /\ archive[k].maxSolarRad.valid
           /\ archive[k].maxSolarRad.v >= sunThreshold
           /\ Hour(archive[k].dateTime) = h}

\* C7: sunHours is the number of distinct local hours with at least one
\* reading whose non-null maxSolarRad is at least 120, and lies in 0..24.
C7_SunHours ==
    /\ ReturnedY =>
          /\ statsY.s.sunHours = Cardinality(QualifyingHours(startYesterday, endYesterday))
          /\ statsY.s.sunHours \in 0..24
    /\ ReturnedV =>
          /\ statsV.s.sunHours = Cardinality(QualifyingHours(startDayBefore, endDayBefore))
          /\ statsV.s.sunHours \in 0..24

Qualifies(r) == r.maxSolarRad.valid /\ r.maxSolarRad.v >= sunThreshold

\* C7's case: two qualifying readings of yesterday at different times of one
\* local hour, counted once
C7_Witness ==
    /\ ReturnedY
    /\ statsY.s.sunHours = 1
    /\ \E j \in DOMAIN archive, k \in DOMAIN archive :
          /\ archive[j].dateTime # archive[k].dateTime
          /\ archive[j].dateTime >= startYesterday
          /\ archive[k].dateTime >= startYesterday
          /\ Qualifies(archive[j]) /\ Qualifies(archive[k])
          /\ Hour(archive[j].dateTime) = Hour(archive[k].dateTime)

TenTimesOrZero(val) == IF val.valid THEN Num(val.v * 10) ELSE Num(0)

\* the rain lookup as C8 states it, over the content of the rollup table
RainAsClaimed(start, end, rainSum) ==
    IF DayStartOf(start) \in DOMAIN rollup
    THEN rainSum = TenTimesOrZero(rollup[DayStartOf(start)])
    ELSE IF RainCandidates(start, end) # {}
    THEN \E t \in RainCandidates(start, end) : rainSum = TenTimesOrZero(rollup[t])
    ELSE rainSum = Num(0)

\* C8: rainSum is 10 times the value of the row at the local midnight of the
\* window's start day; without that row 10 times the value of a row in
\* [start, end); without either, or with a null value, 0.
C8_RainLookup ==
    /\ ReturnedY => RainAsClaimed(startYesterday, endYesterday, statsY.s.rainSum)
    /\ ReturnedV => RainAsClaimed(startDayBefore, endDayBefore, statsV.s.rainSum)

TitleDone == title # NoTitle

EmojiNames == <<"rain", "heatwave", "hot", "sunny", "frost", "freeze", "warmnight">>

\* the rule of each emoji as C9 states it
Fires(e, s) ==
    CASE e = "rain"      -> s.rainSum.v > 0
      [] e = "heatwave"  -> s.tMax.v >= heatwaveMin
      [] e = "hot"       -> hotMin <= s.tMax.v /\ s.tMax.v < heatwaveMin
      [] e = "sunny"     -> sunnyMin <= s.tMax.v /\ s.tMax.v < hotMin
      [] e = "frost"     -> s.tMin.v < 0
      [] e = "freeze"    -> s.tMax.v < 0
      [] e = "warmnight" -> s.tMin.v >= warmNightMin

IsEmoji(c) == c \notin {" ", "Wetterstatistik"}

\* the emojis of a title, in their order
Glyphs(text) == SelectSeq(text, IsEmoji)

FiredEmojis(s) == SelectSeq(EmojiNames, LAMBDA e : Fires(e, s))

\* C9: the title's prefix holds exactly the emojis whose rule fires on
\* yesterday's stats, in the order rain, heat tier, frost, freeze, warm night;
\* tMax = 36, tMin = -1 with rain gives rain, heatwave, frost.
C9_EmojiOrder ==
    TitleDone =>
        /\ Glyphs(title.text) = FiredEmojis(statsY.s)
        /\ (statsY.s.tMax.v = heatwaveMin + 10 /\ statsY.s.tMin.v = 0 - 10
              /\ statsY.s.rainSum.v > 0)
              => Glyphs(title.text) = <<"rain", "heatwave", "frost">>

\* C9's case: the title of a day with tMax = 36, tMin = -1 and rain
C9_Witness ==
    /\ TitleDone
    /\ statsY.s.tMax.v = heatwaveMin + 10
    /\ statsY.s.tMin.v = 0 - 10
    /\ statsY.s.rainSum.v > 0
    /\ Len(Glyphs(title.text)) = 3

\* C10: consecutive emojis of the title are separated by exactly one space,
\* and a title without emoji starts with the fixed text.
C10_EmojiJoin ==
    TitleDone =>
        /\ FiredEmojis(statsY.s) = <<>> => title.text = TitleText
        /\ \A p \in DOMAIN title.text :
              (IsEmoji(title.text[p]) /\ \E q \in DOMAIN title.text :
                                            q > p /\ IsEmoji(title.text[q]))
                 => /\ p + 2 <= Len(title.text)
                    /\ title.text[p + 1] = " "
                    /\ IsEmoji(title.text[p + 2])

InRetryLoop == pc \in {"lemmy", "lemmySleep"}

\* C11: while lemmyPostWithRetry runs, no step reads the archive again or
\* changes the stats, the streaks, the title or the body, and every post
\* handed to lemmyCreatePost is the title and body composed before the
\* first attempt.
C11_RetriesReuseReport ==
    [][InRetryLoop =>
         /\ UNCHANGED <<dbVars, statsY, statsV, faultsY, faultsV, scanVars, textVars>>
         /\ lemmyPosts' \subseteq {[title |-> title, body |-> weatherText]}]_vars

\* C11's case: a third attempt has submitted the post again
C11_Witness ==
    /\ attempts >= 3
    /\ sleeps >= 2
    /\ lemmyPosts = {[title |-> title, body |-> weatherText]}

AppendixDone == pc \in {"title", "publish", "lemmy", "lemmySleep", "mastodon"} \/ TitleDone

\* the sentences C14 states for the two counters
SentencesAsClaimed ==
    (IF daysSinceRain >= 3
     THEN IF statsY.s.rainSum.v > 0
          THEN <<[kind |-> "wiederGeregnet", args |-> <<Num(daysSinceRain)>>]>>
          ELSE <<[kind |-> "nichtGeregnet", args |-> <<Num(daysSinceRain)>>]>>
     ELSE <<>>)
    \o (IF consecutiveRainDays >= 3
        THEN <<[kind |-> "regnetSeit", args |-> <<Num(consecutiveRainDays)>>]>>
        ELSE <<>>)

\* C14: the body is the fixed template followed by the dry-spell sentence iff
\* daysSinceRain >= 3 (the "rained again" variant when yesterday's rainSum > 0,
\* else the "no rain" variant, with N = daysSinceRain) and by the
\* "raining N days straight" sentence iff consecutiveRainDays >= 3; below the
\* thresholds it is the template only.
C14_AppendixThresholds ==
    AppendixDone =>
        /\ weatherText = BodyOf(statsY.s, statsV.s) \o SentencesAsClaimed
        /\ (daysSinceRain < 3 /\ consecutiveRainDays < 3)
              => weatherText = BodyOf(statsY.s, statsV.s)

\* C14's case: a body that ends with the dry-spell sentence of exactly 3 days
C14_Witness ==
    /\ AppendixDone
    /\ daysSinceRain = 3
    /\ Len(weatherText) = 2
    /\ weatherText[2] = [kind |-> "nichtGeregnet", args |-> <<Num(3)>>]

\* C15: a scan stops at the lookback day whose rollup query errors or has no
\* row: every day counted lies before the first day without a row, the
\* stopping round adds nothing and is the last one, so no older day is
\* counted even when it has a readable row.
C15_ScanStopsAtMissing ==
    /\ \A d \in 1..daysSinceRain : HasRow(d)
    /\ \A d \in 1..consecutiveRainDays : HasRow(d)
    /\ dryStop \in {"error", "norow"}
          => /\ pc # "dryScan"
             /\ daysSinceRain = dryIters - 1
             /\ dryStop = "norow" => ~HasRow(dryIters)
    /\ rainStop \in {"error", "norow"}
          => /\ pc # "rainScan"
             /\ consecutiveRainDays = rainIters - 1
             /\ rainStop = "norow" => ~HasRow(rainIters)

\* C15's case: day 2 has no row between the dry days 1 and 3, and a scan of
\* wet days ended by a query error before an older wet day
C15_Witness ==
    \/ /\ BothScansDone
       /\ DryDay(1) /\ ~HasRow(2) /\ DryDay(3)
       /\ dryStop = "norow"
       /\ daysSinceRain = 1
    \/ /\ BothScansDone
       /\ WetDay(1) /\ WetDay(2) /\ WetDay(3)
       /\ rainStop = "error"
       /\ consecutiveRainDays = 1

\* the non-null sums stored for the window [start, end)
StoredSums(start, end) ==
    {rollup[t].v : t \in {u \in RainCandidates(start, end) : rollup[u].valid}}

RainSumNeverNegative(start, end, rainSum) ==
    /\ ~IsNaN(rainSum)
    /\ rainSum.v >= 0
    /\ RainCandidates(start, end) = {} => rainSum = Num(0)

\* C16 as stated: whatever the rollup holds, rainSum is not NaN, not negative,
\* and 0 when the window has no rollup row.
C16_RainSumNonNegative ==
    /\ ReturnedY => RainSumNeverNegative(startYesterday, endYesterday, statsY.s.rainSum)
    /\ ReturnedV => RainSumNeverNegative(startDayBefore, endDayBefore, statsV.s.rainSum)

RainSumFollowsStore(start, end, rainSum) ==
    /\ ~IsNaN(rainSum)
    /\ rainSum.v = 0 \/ \E v \in StoredSums(start, end) : rainSum.v = 10 * v
    /\ RainCandidates(start, end) = {} => rainSum = Num(0)
    /\ (\A v \in StoredSums(start, end) : v >= 0) => rainSum.v >= 0

\* C16, amended: rainSum is never NaN; it is 0 or 10 times a non-null sum
\* stored for the window, hence 0 when the window has no row and not negative
\* when no stored sum of the window is negative.
C16_RainSumFollowsStore ==
    /\ ReturnedY => RainSumFollowsStore(startYesterday, endYesterday, statsY.s.rainSum)
    /\ ReturnedV => RainSumFollowsStore(startDayBefore, endDayBefore, statsV.s.rainSum)

\* C16's case: the row of yesterday's midnight holds a negative sum
C16_Witness ==
    /\ ReturnedY
    /\ ~faultsY.rain
    /\ HasRow(1) /\ rollup[DayStart(1)].valid /\ rollup[DayStart(1)].v < 0
    /\ statsY.s.rainSum.v = 10 * rollup[DayStart(1)].v

\* lemmyPostWithRetry has returned into runWeatherPosting
RetryReturned == loopMode /\ attempts > 0 /\ pc \in {"mastodon", "done"}

\* C17: in loop mode every failed attempt is counted, whichever step failed;
\* every failure but the 48th is followed by one sleep, the 48th by the
\* return; there is no 49th attempt; and the first success returns at once,
\* with no request after it.
C17_LoopRetryBudget ==
    loopMode =>
        /\ retryCount = attempts - lemmyDone
        /\ attempts <= maxRetries
        /\ lemmyDone <= 1
        /\ pc = "lemmy" => sleeps = retryCount /\ lemmyDone = 0 /\ retryCount < maxRetries
        /\ pc = "lemmySleep" => sleeps = retryCount - 1 /\ lemmyDone = 0 /\ retryCount < maxRetries
        /\ RetryReturned
              => \/ lemmyDone = 1 /\ sleeps = retryCount
                 \/ lemmyDone = 0 /\ retryCount = maxRetries /\ sleeps = maxRetries - 1

\* C17's case: the return right after the 48th failure, 47 sleeps behind it
C17_Witness ==
    /\ RetryReturned
    /\ lemmyDone = 0
    /\ retryCount = maxRetries
    /\ sleeps = maxRetries - 1
    /\ pc = "done"

\* C18: after the first scan, yesterday's rainSum > 0 comes with
\* daysSinceRain = 0, so the body never holds the "rained again after N dry
\* days" sentence.
C18_RainedAgainUnreachable ==
    /\ (DryScanDone /\ statsY.s.rainSum.v > 0) => daysSinceRain = 0
    /\ \A p \in DOMAIN weatherText : weatherText[p].kind # "wiederGeregnet"

MastodonDue == ~testMode /\ config.mastodon /\ pc = "dryScan"

\* C12: at most one Mastodon post attempt is made in a cycle, and every
\* non-test cycle that has passed the NaN guard with Mastodon configured
\* comes to its one attempt and ends, whatever the Lemmy posting does.
C12_MastodonOnce ==
    /\ [](Len(mastodonPosts) <= 1)
    /\ MastodonDue ~> (pc = "done" /\ Len(mastodonPosts) = 1)

\* C13: every cycle of the loop mode begins at 04:00 local time.
C13_CyclesBeginAtFour == loopMode => MinuteOfDay(now) = runHour * 60

\* C19: no two cycles of one run have the same yesterday.
C19_NoDuplicateReport ==
    \A p \in DOMAIN targets : \A q \in DOMAIN targets : p # q => targets[p] # targets[q]

====
